---- MODULE Spec2Model ----
(***************************************************************************)
(* CryptoVault wallet: the key-management core (core/wallet.ts), the       *)
(* Zustand store (store/walletStore.ts), the PIN unlock screen             *)
(* (screens/auth/UnlockScreen.tsx) and the Settings lock / wipe handlers   *)
(* (screens/main/SettingsScreen.tsx), as a state machine.                  *)
(*                                                                         *)
(* Strings are sequences of UTF-16 code units.  An optional value is the   *)
(* empty sequence (null / false / undefined) or a one-element sequence.    *)
(* A React component's state is kept twice: the committed state (pin,      *)
(* loading, attempts) and the values captured by the closures of the last  *)
(* render (rPin, rLoading, rAttempts), which is what a handler reads.      *)
(***************************************************************************)
EXTENDS Integers, Sequences, FiniteSets, Bags, TLC

\* ---------------------------------------------------------------- bounds
\* Cap of the failed-attempt counter explored by the model.
MaxAttempts == 6
\* Cap of the number of tryUnlock calls in flight together.
MaxInFlight == 2
\* Longest secret given to the cipher on its own.
MaxSecretLen == 8

\* ------------------------------------------------------- program constants
PIN_LENGTH == 6
\* The literal 5 of tryUnlock's catch block.
LOCKOUT_THRESHOLD == 5

\* ------------------------------------------------------------ input sets
\* The PINs typed on the unlock screen: "123456" and "123457".
Pin123456 == <<49, 50, 51, 52, 53, 54>>
Pin123457 == <<49, 50, 51, 52, 53, 55>>
Pins == {Pin123456, Pin123457}

\* The PIN and the secret ("abandon") given to the PIN setup.
SetupPins == {Pin123456}
SecretAbandon == <<97, 98, 97, 110, 100, 111, 110>>
Secrets == {SecretAbandon}

\* The inputs of the cipher on its own: the PINs above, "000000" and
\* "654321"; the prefixes of "abandon ability" and of "0x1f2e3d4c5b6a".
Pin000000 == <<48, 48, 48, 48, 48, 48>>
Pin654321 == <<54, 53, 52, 51, 50, 49>>
CipherPins == Pins \cup {Pin000000, Pin654321}
PhraseText == <<97, 98, 97, 110, 100, 111, 110, 32, 97, 98, 105, 108, 105, 116, 121>>
HexKeyText == <<48, 120, 49, 102, 50, 101, 51, 100, 52, 99, 53, 98, 54, 97>>
Prefixes(s) ==
  {SubSeq(s, 1, k) : k \in 1..(IF MaxSecretLen < Len(s) THEN MaxSecretLen ELSE Len(s))}
CipherSecrets == Prefixes(PhraseText) \cup Prefixes(HexKeyText)

\* ------------------------------------------------------------- optionals
Null == <<>>
Some(x) == <<x>>

\* ----------------------------------------------------------- the cipher
\* Bit i of a, and bit i of a ^ b at its place value.
Bit(a, i) == (a \div (2 ^ i)) % 2
XorBit(a, b, i) == ((Bit(a, i) + Bit(b, i)) % 2) * (2 ^ i)

\* JavaScript's ^ on two UTF-16 code units.
BitXor(a, b) ==
  XorBit(a, b, 0) + XorBit(a, b, 1) + XorBit(a, b, 2) + XorBit(a, b, 3)
  + XorBit(a, b, 4) + XorBit(a, b, 5) + XorBit(a, b, 6) + XorBit(a, b, 7)
  + XorBit(a, b, 8) + XorBit(a, b, 9) + XorBit(a, b, 10) + XorBit(a, b, 11)
  + XorBit(a, b, 12) + XorBit(a, b, 13) + XorBit(a, b, 14) + XorBit(a, b, 15)

\* pin.repeat(Math.ceil(len / pin.length)).slice(0, len)
PinKey(pinText, len) ==
  [i \in 1..len |-> pinText[((i - 1) % Len(pinText)) + 1]]

\* The loop of encryptWithPin / decryptWithPin: String.fromCharCode of the
\* XOR of the two code units.
XorWithKey(text, key) == [i \in 1..Len(text) |-> BitXor(text[i], key[i])]

\* Buffer.from(s, 'binary'): one byte per code unit, its low 8 bits.
BufferFromBinary(s) == [i \in 1..Len(s) |-> s[i] % 256]

\* buf.toString('binary'): one code unit per byte.
BufferToBinary(bytes) == bytes

\* The padding symbol '=' of base64; 0..63 are the alphabet's indices.
B64Pad == 64

\* buf.toString('base64'): symbol j belongs to group (j - 1) \div 4, which
\* encodes up to three bytes.
Base64Encode(bytes) ==
  LET n == Len(bytes)
      byte(i) == IF i <= n THEN bytes[i] ELSE 0
  IN  [j \in 1..(4 * ((n + 2) \div 3)) |->
        LET g == (j - 1) \div 4
            k == (j - 1) % 4
            b0 == byte((3 * g) + 1)
            b1 == byte((3 * g) + 2)
            b2 == byte((3 * g) + 3)
        IN  IF k = 0 THEN b0 \div 4
            ELSE IF k = 1 THEN ((b0 % 4) * 16) + (b1 \div 16)
            ELSE IF k = 2 THEN
              IF (3 * g) + 2 > n THEN B64Pad
              ELSE ((b1 % 16) * 4) + (b2 \div 64)
            ELSE
              IF (3 * g) + 3 > n THEN B64Pad ELSE b2 % 64]

\* Buffer.from(s, 'base64'): byte i belongs to group (i - 1) \div 3.
Base64Decode(syms) ==
  LET pads == Cardinality({j \in 1..Len(syms) : syms[j] = B64Pad})
      n == (3 * (Len(syms) \div 4)) - pads
      sym(j) == IF syms[j] = B64Pad THEN 0 ELSE syms[j]
  IN  [i \in 1..n |->
        LET g == (i - 1) \div 3
            k == (i - 1) % 3
            s1 == sym((4 * g) + 1)
            s2 == sym((4 * g) + 2)
            s3 == sym((4 * g) + 3)
            s4 == sym((4 * g) + 4)
        IN  IF k = 0 THEN (s1 * 4) + (s2 \div 16)
            ELSE IF k = 1 THEN ((s2 % 16) * 16) + (s3 \div 4)
            ELSE ((s3 % 4) * 64) + s4]

\* The character of a base64 symbol: A-Z, a-z, 0-9, '+', '/', '='.
Base64Char(sym) ==
  IF sym < 26 THEN 65 + sym
  ELSE IF sym < 52 THEN 97 + (sym - 26)
  ELSE IF sym < 62 THEN 48 + (sym - 52)
  ELSE IF sym = 62 THEN 43
  ELSE IF sym = 63 THEN 47
  ELSE 61

\* The base64 string as text, to compare it with a plaintext.
Base64Text(syms) == [j \in 1..Len(syms) |-> Base64Char(syms[j])]

encryptWithPin(text, pinText) ==
  Base64Encode(BufferFromBinary(XorWithKey(text, PinKey(pinText, Len(text)))))

\* decryptWithPin with its key started one character late: the fault the
\* round trip C9 has to detect.
decryptWithPinKeyShifted(encoded, pinText) ==
  LET text == BufferToBinary(Base64Decode(encoded))
  IN  XorWithKey(text, [i \in 1..Len(text) |-> pinText[(i % Len(pinText)) + 1]])

decryptWithPin(encoded, pinText) ==
  LET text == BufferToBinary(Base64Decode(encoded))
  IN  XorWithKey(text, PinKey(pinText, Len(text)))

\* Both functions over the model's inputs, computed once.
AllSecrets == Secrets \cup CipherSecrets
AllPins == Pins \cup SetupPins \cup CipherPins
Evaluated(s) == SubSeq(s, 1, Len(s))
EncryptTable ==
  [m \in AllSecrets |->
    [p \in AllPins |-> Evaluated(encryptWithPin(m, p))] @@ <<>>] @@ <<>>
AllBlobs == {EncryptTable[m][p] : m \in AllSecrets, p \in AllPins}
DecryptTable ==
  [b \in AllBlobs |->
    [p \in AllPins |-> Evaluated(decryptWithPin(b, p))] @@ <<>>] @@ <<>>

\* ------------------------------------------------------------ core/wallet
\* HDNodeWallet.fromPhrase(mnemonic, undefined, DERIVATION_PATH).address:
\* the derivation is a deterministic function of the secret, kept abstract.
deriveAddress(mnemonic) == [derivedFrom |-> mnemonic]

\* JSON.stringify / JSON.parse of a WalletMeta record.
JSONstringify(m) == [json |-> m]
JSONparse(raw) == raw.json

\* saveMnemonic storing the base64 of the phrase with no XOR: the fault C16
\* has to detect.
saveMnemonicWithoutKey(mnemonic, p) ==
  Some(Base64Encode(BufferFromBinary(mnemonic)))

\* saveMnemonic: the value Keychain.setGenericPassword stores.
saveMnemonic(mnemonic, p) == Some(EncryptTable[mnemonic][p])

\* saveWalletMeta: the item EncryptedStorage.setItem stores.
saveWalletMeta(m) == Some(JSONstringify(m))

\* loadWalletMeta on the stored item: raw ? JSON.parse(raw) : null
loadWalletMeta(item) == IF item = Null THEN Null ELSE Some(JSONparse(item[1]))

\* loadMnemonic without its check of a missing entry: the fault C10 has to
\* detect.
loadMnemonicUnchecked(result, p) ==
  IF result = Null
  THEN [ok |-> TRUE, error |-> "", value |-> <<>>]
  ELSE [ok |-> TRUE, error |-> "", value |-> DecryptTable[result[1]][p]]

\* loadMnemonic once Keychain.getGenericPassword has resolved with result
\* (false when nothing is stored).
loadMnemonic(result, p) ==
  IF result = Null
  THEN [ok |-> FALSE, error |-> "No wallet stored on this device", value |-> <<>>]
  ELSE [ok |-> TRUE, error |-> "", value |-> DecryptTable[result[1]][p]]

\* loadMnemonic when Keychain.getGenericPassword rejects.
KeychainRejects == [ok |-> FALSE, error |-> "keychain unavailable", value |-> <<>>]

\* ------------------------------------------------------------ UnlockScreen
NoAlert == [title |-> "", remaining |-> 0]

\* tryUnlock with setUnlocked(true) run whatever loadMnemonic did: the
\* fault C11 has to detect.
tryUnlockOutcomeAlwaysUnlocks(res, closureAttempts) ==
  [unlocked |-> TRUE, alert |-> NoAlert, newAttempts |-> closureAttempts]

\* What tryUnlock shows and does for a loadMnemonic result, with the
\* attempts value its closure captured.
tryUnlockOutcome(res, closureAttempts) ==
  IF res.ok
  THEN [unlocked |-> TRUE, alert |-> NoAlert, newAttempts |-> closureAttempts]
  ELSE LET newAttempts == closureAttempts + 1
       IN  IF newAttempts >= LOCKOUT_THRESHOLD
           THEN [unlocked |-> FALSE,
                 alert |-> [title |-> "Too many attempts", remaining |-> 0],
                 newAttempts |-> newAttempts]
           ELSE [unlocked |-> FALSE,
                 alert |-> [title |-> "Wrong PIN",
                            remaining |-> LOCKOUT_THRESHOLD - newAttempts],
                 newAttempts |-> newAttempts]

\* ------------------------------------------------------------ walletStore
\* The ChainKey values: the keys of CHAINS, also SettingsScreen's
\* CHAIN_ORDER.
Chains == {"ethereum", "bsc", "polygon"}
DEFAULT_CHAIN_KEY == "ethereum"

\* CHAINS, reduced to the field the store reads.  No entry of the table
\* sets isTestnet, so the filter of refreshBalances reads undefined (falsy)
\* for every key.
CHAINS == [k \in Chains |-> [isTestnet |-> FALSE]]

\* Object.keys(CHAINS).filter((k) => !CHAINS[k].isTestnet)
MainnetChains == {k \in Chains : ~CHAINS[k].isTestnet}

\* nativeBalances: {}
EmptyBalances == [k \in {} |-> ""]

\* initialState
initialState ==
  [meta |-> Null, isUnlocked |-> FALSE, activeChain |-> DEFAULT_CHAIN_KEY,
   nativeBalances |-> EmptyBalances, assets |-> <<>>, totalUsdValue |-> 0,
   transactions |-> <<>>, isLoading |-> FALSE, error |-> Null]

\* The fields of a store state kept in storeData.
StoreData(s) ==
  [activeChain |-> s.activeChain, nativeBalances |-> s.nativeBalances,
   assets |-> s.assets, totalUsdValue |-> s.totalUsdValue,
   transactions |-> s.transactions, isLoading |-> s.isLoading,
   error |-> s.error]

\* reset with its transactions kept: the fault C12 has to detect.
resetKeepsTransactions(s) ==
  [initialState EXCEPT !.transactions = s.transactions]

\* reset: set(() => ({ ...initialState })) on the store state s
reset(s) == initialState

\* Transaction['status']
Statuses == {"pending", "confirmed", "failed"}

\* addTransaction: s.transactions.unshift(tx)
addTransaction(s, tx) ==
  [s EXCEPT !.transactions = <<tx>> \o s.transactions]

\* updateTxStatus with the status of every transaction of that hash set:
\* the fault C30 has to detect.
updateTxStatusOfAll(s, hash, status) ==
  [s EXCEPT !.transactions =
     [i \in 1..Len(s.transactions) |->
        IF s.transactions[i].hash = hash
        THEN [s.transactions[i] EXCEPT !.status = status]
        ELSE s.transactions[i]]]

\* updateTxStatus: find returns the first transaction whose hash is the
\* given one, and its status is assigned; nothing when there is none.
updateTxStatus(s, hash, status) ==
  LET found == {i \in 1..Len(s.transactions) : s.transactions[i].hash = hash}
  IN  IF found = {} THEN s
      ELSE LET first == CHOOSE i \in found : \A j \in found : i <= j
           IN  [s EXCEPT !.transactions[first].status = status]

\* ------------------------------------------------------------------ state
VARIABLES
  keychain,     \* Keychain entry of MNEMONIC_SERVICE: Null or Some(base64)
  encStorage,   \* EncryptedStorage item WALLET_META_KEY: Null or Some(raw)
  meta,         \* store.meta: Null or Some(WalletMeta)
  isUnlocked,   \* store.isUnlocked
  pin,          \* UnlockScreen state: pin
  loading,      \* UnlockScreen state: loading
  attempts,     \* UnlockScreen state: attempts
  rPin,         \* pin as captured by the last render
  rLoading,     \* loading as captured by the last render
  rAttempts,    \* attempts as captured by the last render
  inflight,     \* tryUnlock calls awaiting loadMnemonic
  route,        \* the root stack's focused route: "Auth" or "Main"
  kcSecret,     \* history: the plaintext the keychain entry was made from
  kcPin,        \* history: the PIN the keychain entry was made with
  wiped,        \* history: a wipe completed and nothing was saved since
  lastLoad,     \* history: the loadMnemonic call that settled in the last
                \* step, if any, and what came of it
  everUnlocked, \* history: some unlock attempt has succeeded
  storeData,    \* the store's fields other than meta and isUnlocked
  pending,      \* store thunks and sends awaiting the network
  auth,         \* the auth stack: focused screen, CreateWallet's phrase,
                \* SetPin's route params, the last Alert of its screens
  boot,         \* history: what the last start of the app found and mounted
  prevSave,     \* history of the cipher on its own: the saveMnemonic call
                \* before the one that wrote the current entry
  send          \* the Send screen: step, pin and loading as committed, and
                \* as captured by the closures of its last render


vars == <<keychain, encStorage, meta, isUnlocked, pin, loading, attempts,
          rPin, rLoading, rAttempts, inflight, route,
          kcSecret, kcPin, wiped, lastLoad, everUnlocked,
          storeData, pending, auth, boot, prevSave, send>>

storageVars == <<keychain, encStorage, kcSecret, kcPin, wiped>>
storeVars == <<meta, isUnlocked>>
mainVars == <<storeData, pending, send>>
flowVars == <<auth, boot, prevSave>>
screenVars == <<pin, loading, attempts, inflight>>
renderVars == <<rPin, rLoading, rAttempts>>

\* read: how the keychain read went; pinIsSaved: the entered PIN is the one
\* the entry was saved with; ok / error: loadMnemonic's result; valueIsSaved:
\* the returned string is the saved plaintext; afterWipe: the value of
\* wiped when the read happened; alert: the title of the Alert shown.
NoAttempt ==
  [read |-> "none", pinIsSaved |-> FALSE, ok |-> FALSE, error |-> "",
   valueIsSaved |-> FALSE, unlocked |-> FALSE, afterWipe |-> FALSE,
   alert |-> ""]

\* initialRoute with the lock left out of account: the fault C25 has to
\* detect.
initialRouteIgnoresLock(m, unlocked) ==
  IF m = Null THEN "Auth" ELSE "Main"

\* AppNavigator: initialRoute for the store's meta and isUnlocked.
initialRoute(m, unlocked) ==
  IF m = Null THEN "Auth" ELSE IF ~unlocked THEN "Auth" ELSE "Main"

\* What AppNavigator returns for the store state s: the loader alone while
\* isLoading, else the NavigationContainer with the root stack opened on
\* initialRoute.
AppNavigatorRenders(s) ==
  IF s.isLoading
  THEN [navigator |-> FALSE, initialRouteName |-> "none"]
  ELSE [navigator |-> TRUE,
        initialRouteName |-> initialRoute(s.meta, s.isUnlocked)]

\* AuthFlow: the AuthStack.Navigator names no initial route, so the stack
\* opens on its first screen.
AuthFlowInitialScreen == "Onboarding"

\* The auth stack as mounted: no phrase generated, no params, no Alert.
AuthMounted ==
  [screen |-> AuthFlowInitialScreen, created |-> Null, params |-> Null,
   alert |-> ""]

\* What a start of the app records: how many restarts there were, what storage
\* held, and the root route and auth screen the navigator mounted.
BootRecord(boots, item, entry, m, unlocked) ==
  [boots |-> boots, hadMeta |-> item # Null, hadBlob |-> entry # Null,
   route |-> initialRoute(m, unlocked), screen |-> AuthFlowInitialScreen]

\* SendScreen as mounted: useState('form'), useState(''), useState(false).
SendMounted ==
  [step |-> "form", pin |-> <<>>, loading |-> FALSE,
   rStep |-> "form", rPin |-> <<>>, rLoading |-> FALSE]

\* walletStore.initialState, useState('') / useState(false) / useState(0),
\* and empty storage.
Init ==
  /\ keychain = Null
  /\ encStorage = Null
  /\ meta = Null
  /\ isUnlocked = FALSE
  /\ pin = <<>>
  /\ loading = FALSE
  /\ attempts = 0
  /\ rPin = <<>>
  /\ rLoading = FALSE
  /\ rAttempts = 0
  /\ inflight = EmptyBag
  /\ route = "Auth"
  /\ kcSecret = <<>>
  /\ kcPin = <<>>
  /\ wiped = FALSE
  /\ lastLoad = NoAttempt
  /\ everUnlocked = FALSE
  /\ storeData = StoreData(initialState)
  /\ pending = {}
  /\ auth = AuthMounted
  /\ boot = BootRecord(0, Null, Null, Null, FALSE)
  /\ prevSave = Null
  /\ send = SendMounted

\* The store's state as one record.
StoreState == [meta |-> meta, isUnlocked |-> isUnlocked] @@ storeData

\* ---------------------------------------------------------------- helpers
IsPrefix(s, t) == Len(s) <= Len(t) /\ SubSeq(t, 1, Len(s)) = s

\* ------------------------------------------------------------ UnlockScreen
\* React commits the component state: the next handlers read these values.
Render ==
  /\ <<rPin, rLoading, rAttempts>> # <<pin, loading, attempts>>
  /\ rPin' = pin
  /\ rLoading' = loading
  /\ rAttempts' = attempts
  /\ UNCHANGED <<storageVars, storeVars, screenVars, route>>
  /\ lastLoad' = NoAttempt
  /\ UNCHANGED <<everUnlocked, mainVars, flowVars>>

\* handleKey('⌫')
HandleKeyBackspace ==
  /\ route = "Auth"
  /\ ~rLoading
  /\ pin # <<>>
  /\ pin' = SubSeq(pin, 1, Len(pin) - 1)
  /\ UNCHANGED <<storageVars, storeVars, loading, attempts, inflight,
                 renderVars, route>>
  /\ lastLoad' = NoAttempt
  /\ UNCHANGED <<everUnlocked, mainVars, flowVars>>

\* handleKey(digit); the sixth digit calls tryUnlock(next), which runs up to
\* its await: setLoading(true) and the call of loadMnemonic.
HandleKeyDigit(key) ==
  /\ route = "Auth"
  /\ ~rLoading
  /\ Len(rPin) < PIN_LENGTH
  /\ LET next == Append(rPin, key)
     IN  /\ \E p \in Pins : IsPrefix(next, p)
         /\ pin' = next
         /\ IF Len(next) = PIN_LENGTH
            THEN /\ BagCardinality(inflight) < MaxInFlight
                 /\ rAttempts < MaxAttempts
                 /\ loading' = TRUE
                 /\ inflight' = inflight (+)
                                  SetToBag({[pin |-> next,
                                             attempts |-> rAttempts]})
            ELSE UNCHANGED <<loading, inflight>>
  /\ UNCHANGED <<storageVars, storeVars, attempts, renderVars, route>>
  /\ lastLoad' = NoAttempt
  /\ UNCHANGED <<everUnlocked, mainVars, flowVars>>

\* The rest of tryUnlock for a call in flight, once loadMnemonic has settled
\* with res: the try block's tail or the catch block, then finally.
TryUnlockSettles(a, res, readKind) ==
  LET out == tryUnlockOutcome(res, a.attempts)
  IN  /\ inflight' = inflight (-) SetToBag({a})
      /\ loading' = FALSE
      /\ IF out.unlocked
         THEN /\ isUnlocked' = TRUE
              /\ route' = "Main"
              /\ UNCHANGED <<pin, attempts>>
         ELSE /\ attempts' = out.newAttempts
              /\ pin' = <<>>
              /\ UNCHANGED <<isUnlocked, route>>
      /\ lastLoad' =
           [read |-> readKind,
            pinIsSaved |-> (readKind = "blob" /\ a.pin = kcPin),
            ok |-> res.ok,
            error |-> res.error,
            valueIsSaved |-> (res.ok /\ res.value = kcSecret),
            unlocked |-> out.unlocked,
            afterWipe |-> wiped,
            alert |-> out.alert.title]
      /\ everUnlocked' = (everUnlocked \/ out.unlocked)
      /\ UNCHANGED <<mainVars, flowVars>>
      /\ UNCHANGED <<storageVars, meta, renderVars>>

\* Keychain.getGenericPassword resolves (with the entry, or with false).
TryUnlockResolves(a) ==
  /\ BagIn(a, inflight)
  /\ TryUnlockSettles(a, loadMnemonic(keychain, a.pin),
                      IF keychain = Null THEN "absent" ELSE "blob")

\* Keychain.getGenericPassword rejects.
TryUnlockKeychainRejects(a) ==
  /\ BagIn(a, inflight)
  /\ TryUnlockSettles(a, KeychainRejects, "rejected")

\* ---------------------------------------------------------- SettingsScreen
\* handleLock
HandleLock ==
  /\ route = "Main"
  /\ isUnlocked
  /\ isUnlocked' = FALSE
  /\ UNCHANGED <<storageVars, meta, screenVars, renderVars, route>>
  /\ lastLoad' = NoAttempt
  /\ UNCHANGED <<everUnlocked, mainVars, flowVars>>

\* handleWipeWallet, Delete pressed, both calls of deleteWallet succeed:
\* Keychain.resetGenericPassword, EncryptedStorage.removeItem, then reset()
\* puts the store back to initialState.  (When the first call rejects, the
\* catch only shows the error: no variable changes.)
WipeWallet ==
  /\ route = "Main"
  /\ keychain' = Null
  /\ kcSecret' = <<>>
  /\ kcPin' = <<>>
  /\ encStorage' = Null
  /\ LET s == reset(StoreState)
     IN  /\ meta' = s.meta
         /\ isUnlocked' = s.isUnlocked
         /\ storeData' = StoreData(s)
  /\ wiped' = TRUE
  /\ UNCHANGED <<screenVars, renderVars, route>>
  /\ lastLoad' = NoAttempt
  /\ UNCHANGED <<everUnlocked, pending, send, flowVars>>

\* Delete pressed, Keychain.resetGenericPassword succeeds and
\* EncryptedStorage.removeItem rejects: deleteWallet rejects, reset() is
\* skipped, the catch shows the error.
WipeWalletRemoveItemRejects ==
  /\ route = "Main"
  /\ keychain' = Null
  /\ kcSecret' = <<>>
  /\ kcPin' = <<>>
  /\ wiped' = FALSE
  /\ UNCHANGED <<encStorage, storeVars, screenVars, renderVars, route>>
  /\ lastLoad' = NoAttempt
  /\ UNCHANGED <<everUnlocked, mainVars, flowVars>>

\* ------------------------------------------------------------- PIN setup
\* The PIN setup completes for a secret and a PIN: saveMnemonic, then
\* saveWalletMeta, and the store takes the meta.  The screen that makes
\* these calls is not part of the sources at hand; what it does when one of
\* them rejects is not modelled.
SetupComplete(m, p) ==
  /\ route = "Auth"
  /\ keychain' = saveMnemonic(m, p)
  /\ kcSecret' = m
  /\ kcPin' = p
  /\ LET wm == [address |-> deriveAddress(m), createdAt |-> 0,
                backupVerified |-> FALSE]
     IN  /\ encStorage' = saveWalletMeta(wm)
         /\ meta' = Some(wm)
  /\ wiped' = FALSE
  /\ UNCHANGED <<isUnlocked, screenVars, renderVars, route>>
  /\ lastLoad' = NoAttempt
  /\ UNCHANGED <<everUnlocked, mainVars, flowVars>>

\* ------------------------------------------------------------- navigation
\* Back from Main pops the root stack to Auth, whose screens stay mounted.
BackToAuth ==
  /\ route = "Main"
  /\ route' = "Auth"
  /\ UNCHANGED <<storageVars, storeVars, screenVars, renderVars>>
  /\ lastLoad' = NoAttempt
  /\ UNCHANGED <<everUnlocked, mainVars, flowVars>>

\* The keys of the pad pressed in the model: the digits of the PINs above.
PadKeys == {p[i] : p \in Pins, i \in 1..PIN_LENGTH}

Next ==
  \/ Render
  \/ HandleKeyBackspace
  \/ \E key \in PadKeys : HandleKeyDigit(key)
  \/ \E a \in BagToSet(inflight) : TryUnlockResolves(a)
  \/ \E a \in BagToSet(inflight) : TryUnlockKeychainRejects(a)
  \/ HandleLock
  \/ WipeWallet
  \/ WipeWalletRemoveItemRejects
  \/ \E m \in Secrets, p \in SetupPins : SetupComplete(m, p)
  \/ BackToAuth

Spec == Init /\ [][Next]_vars

\* ------------------------------------------------- the cipher on its own
\* saveMnemonic(mnemonic, pin) on any secret and PIN of the cipher's inputs.
CipherSave(m, p) ==
  /\ keychain' = saveMnemonic(m, p)
  /\ kcSecret' = m
  /\ kcPin' = p
  /\ wiped' = FALSE
  /\ UNCHANGED <<encStorage, storeVars, screenVars, renderVars, route>>
  /\ lastLoad' = NoAttempt
  /\ prevSave' = IF keychain = Null THEN Null
                 ELSE Some([secret |-> kcSecret, pin |-> kcPin,
                            blob |-> keychain[1]])
  /\ UNCHANGED <<everUnlocked, mainVars, auth, boot>>

\* loadMnemonic(pin) on the stored entry, called directly.
CipherLoad(p) ==
  /\ keychain # Null
  /\ LET res == loadMnemonic(keychain, p)
     IN  lastLoad' =
           [read |-> "blob",
            pinIsSaved |-> (p = kcPin),
            ok |-> res.ok,
            error |-> res.error,
            valueIsSaved |-> (res.ok /\ res.value = kcSecret),
            unlocked |-> FALSE,
            afterWipe |-> wiped,
            alert |-> ""]
  /\ UNCHANGED <<storageVars, storeVars, screenVars, renderVars, route,
                 everUnlocked, mainVars, flowVars>>

NextCipher ==
  \/ \E m \in CipherSecrets, p \in CipherPins : CipherSave(m, p)
  \/ \E p \in CipherPins : CipherLoad(p)

SpecCipher == Init /\ [][NextCipher]_vars

\* ------------------------------------------------ the store on its own
\* Cap of the transactions list explored by the model.
MaxTx == 2
\* Cap of the thunks and sends awaiting the network together.
MaxPending == 2

\* The balance strings and transaction hashes the network returns.
Balances == {"1.5", "0.25"}
TxHashes == {"0xa1", "0xb2"}

\* The outcome of Promise.allSettled for one chain: a balance when the
\* request was fulfilled, Rejected when it was not.
Rejected == "rejected"
SettledResults == [MainnetChains -> Balances \cup {Rejected}]

\* The outcomes in which every fulfilled chain reports the same balance:
\* the ones the specification of the whole store draws from.
UniformResults ==
  {r \in SettledResults : \A k \in MainnetChains : r[k] \in {"1.5", Rejected}}

\* The state after a wallet was set up with "abandon" / 123456 and unlocked
\* with 123456: the unlock screen keeps its pin, the root stack shows Main.
InitStore ==
  LET wm == [address |-> deriveAddress(SecretAbandon), createdAt |-> 0,
             backupVerified |-> FALSE]
  IN  /\ keychain = saveMnemonic(SecretAbandon, Pin123456)
      /\ encStorage = saveWalletMeta(wm)
      /\ meta = Some(wm)
      /\ isUnlocked = TRUE
      /\ pin = Pin123456
      /\ loading = FALSE
      /\ attempts = 0
      /\ rPin = Pin123456
      /\ rLoading = FALSE
      /\ rAttempts = 0
      /\ inflight = EmptyBag
      /\ route = "Main"
      /\ kcSecret = SecretAbandon
      /\ kcPin = Pin123456
      /\ wiped = FALSE
      /\ lastLoad = NoAttempt
      /\ everUnlocked = TRUE
      /\ storeData = StoreData(initialState)
      /\ pending = {}
      /\ auth = [AuthMounted EXCEPT !.screen = "Unlock"]
      /\ boot = BootRecord(0, Null, Null, Null, FALSE)
      /\ prevSave = Null
      /\ send = SendMounted

\* The number a call in flight is told apart by: the least one no call in
\* flight holds.
FreeSlot ==
  LET used == {t.n : t \in pending}
  IN  CHOOSE i \in 0..MaxPending :
        /\ i \notin used
        /\ \A j \in 0..(i - 1) : j \in used

\* What no store action changes.
StoreFrame ==
  UNCHANGED <<storageVars, screenVars, renderVars, route, lastLoad,
              everUnlocked, flowVars>>

\* setActiveChain(chain), from the Home and Settings screens
SetActiveChain(chain) ==
  /\ route = "Main"
  /\ storeData' = [storeData EXCEPT !.activeChain = chain]
  /\ UNCHANGED <<storeVars, pending, send>>
  /\ StoreFrame

\* refreshBalances before its await, on the store state s: returns at once
\* when s has no meta address, else sets isLoading.
refreshBalancesBegins(s) ==
  IF s.meta = Null THEN s ELSE [s EXCEPT !.isLoading = TRUE]

\* refreshBalances up to its await: returns when there is no meta, else
\* sets isLoading and asks every mainnet chain for the balance of
\* meta.address.
RefreshBalancesStart ==
  /\ Cardinality(pending) < MaxPending
  /\ storeData' = StoreData(refreshBalancesBegins(StoreState))
  /\ pending' =
       IF meta = Null THEN pending
       ELSE pending \cup {[kind |-> "refresh", address |-> meta[1].address,
                            n |-> FreeSlot]}
  /\ UNCHANGED <<storeVars, send>>
  /\ StoreFrame

\* results.forEach: the balance of every fulfilled chain is written over
\* nativeBalances, the other keys keep what they held.
writeFulfilled(balances, results) ==
  LET fulfilled == {k \in DOMAIN results : results[k] # Rejected}
  IN  [k \in (DOMAIN balances) \cup fulfilled |->
         IF k \in fulfilled THEN results[k] ELSE balances[k]]

\* refreshBalances after its await with the balance of a rejected chain
\* dropped: the fault C28 has to detect.
RefreshBalancesSettlesDropsRejected(t, results) ==
  /\ t \in pending
  /\ t.kind = "refresh"
  /\ pending' = pending \ {t}
  /\ storeData' =
       [storeData EXCEPT
          !.nativeBalances = writeFulfilled(EmptyBalances, results),
          !.isLoading = FALSE]
  /\ UNCHANGED <<storeVars, send>>
  /\ StoreFrame

\* refreshBalances after Promise.allSettled: the balances of the chains whose
\* request was fulfilled are written, then isLoading is cleared.
RefreshBalancesSettles(t, results) ==
  /\ t \in pending
  /\ t.kind = "refresh"
  /\ pending' = pending \ {t}
  /\ storeData' =
       [storeData EXCEPT
          !.nativeBalances = writeFulfilled(storeData.nativeBalances, results),
          !.isLoading = FALSE]
  /\ UNCHANGED <<storeVars, send>>
  /\ StoreFrame

\* The start of executeSend on the screen: setStep('sending') and
\* setLoading(true).
executeSendBegins(s) == [s EXCEPT !.step = "sending", !.loading = TRUE]

\* SendScreen.executeSend up to its await: sendNative is called; the
\* closure keeps the meta of the render.
ExecuteSendStart ==
  /\ route = "Main"
  /\ meta # Null
  /\ Cardinality(pending) < MaxPending
  /\ pending' = pending \cup {[kind |-> "send", address |-> meta[1].address,
                                n |-> FreeSlot]}
  /\ send' = executeSendBegins(send)
  /\ UNCHANGED <<storeVars, storeData>>
  /\ StoreFrame

\* executeSend after sendNative resolved: addTransaction unshifts the
\* pending transaction, then finally clears loading.
ExecuteSendResolves(t, hash) ==
  /\ t \in pending
  /\ t.kind = "send"
  /\ Len(storeData.transactions) < MaxTx
  /\ pending' = pending \ {t}
  /\ storeData' =
       StoreData(addTransaction(StoreState,
                                [hash |-> hash, from |-> t.address,
                                 status |-> "pending"]))
  /\ send' = [send EXCEPT !.loading = FALSE]
  /\ UNCHANGED storeVars
  /\ StoreFrame

\* executeSend's catch with a transaction of status 'failed' recorded: the
\* fault C27 has to detect.
ExecuteSendRejectsRecordsFailure(t) ==
  /\ t \in pending
  /\ t.kind = "send"
  /\ Len(storeData.transactions) < MaxTx
  /\ pending' = pending \ {t}
  /\ storeData' =
       [storeData EXCEPT
          !.transactions =
             <<[hash |-> "0xa1", from |-> t.address, status |-> "failed"]>>
               \o storeData.transactions]
  /\ send' = [send EXCEPT !.step = "form", !.pin = <<>>, !.loading = FALSE]
  /\ UNCHANGED storeVars
  /\ StoreFrame

\* executeSend after sendNative rejected: only the screen changes, back to
\* the form with an empty pin, then finally clears loading.
ExecuteSendRejects(t) ==
  /\ t \in pending
  /\ t.kind = "send"
  /\ pending' = pending \ {t}
  /\ send' = [send EXCEPT !.step = "form", !.pin = <<>>, !.loading = FALSE]
  /\ UNCHANGED <<storeVars, storeData>>
  /\ StoreFrame

NextStore ==
  \/ \E chain \in Chains : SetActiveChain(chain)
  \/ RefreshBalancesStart
  \/ \E t \in pending, results \in UniformResults :
       RefreshBalancesSettles(t, results)
  \/ ExecuteSendStart
  \/ \E t \in pending, hash \in TxHashes : ExecuteSendResolves(t, hash)
  \/ \E t \in pending : ExecuteSendRejects(t)
  \/ HandleLock
  \/ WipeWallet
  \/ WipeWalletRemoveItemRejects

SpecStore == InitStore /\ [][NextStore]_vars

\* ------------------------------------------------- the thunks of the store
\* The message of the error EncryptedStorage.getItem rejects with.
LoadError == "storage unavailable"

\* The state of a started process before loadFromStorage ran: the store is
\* at initialState, the auth stack shows its first screen, and storage is
\* either empty or holds the wallet set up with "abandon" / 123456.
InitLoad ==
  LET wm == [address |-> deriveAddress(SecretAbandon), createdAt |-> 0,
             backupVerified |-> FALSE]
  IN  /\ \/ /\ keychain = saveMnemonic(SecretAbandon, Pin123456)
             /\ encStorage = saveWalletMeta(wm)
             /\ kcSecret = SecretAbandon
             /\ kcPin = Pin123456
          \/ /\ keychain = Null
             /\ encStorage = Null
             /\ kcSecret = <<>>
             /\ kcPin = <<>>
      /\ meta = initialState.meta
      /\ isUnlocked = initialState.isUnlocked
      /\ pin = <<>>
      /\ loading = FALSE
      /\ attempts = 0
      /\ rPin = <<>>
      /\ rLoading = FALSE
      /\ rAttempts = 0
      /\ inflight = EmptyBag
      /\ route = "Auth"
      /\ wiped = FALSE
      /\ lastLoad = NoAttempt
      /\ everUnlocked = FALSE
      /\ storeData = StoreData(initialState)
      /\ pending = {}
      /\ auth = AuthMounted
      /\ boot = BootRecord(0, Null, Null, Null, FALSE)
      /\ prevSave = Null
      /\ send = SendMounted

\* The address field of a call in flight that was given no address.
NoAddress == [derivedFrom |-> <<>>]

\* loadFromStorage up to its await: isLoading is set and loadWalletMeta is
\* called.
LoadFromStorageStart ==
  /\ Cardinality(pending) < MaxPending
  /\ storeData' = [storeData EXCEPT !.isLoading = TRUE]
  /\ pending' = pending \cup {[kind |-> "load", address |-> NoAddress,
                                n |-> FreeSlot]}
  /\ UNCHANGED <<storeVars, send>>
  /\ StoreFrame

\* loadFromStorage after loadWalletMeta resolved: the meta read from the
\* stored item (null when there is none) is set, then finally clears
\* isLoading.  The item is read when the call settles.
LoadFromStorageResolves(t) ==
  /\ t \in pending
  /\ t.kind = "load"
  /\ pending' = pending \ {t}
  /\ meta' = loadWalletMeta(encStorage)
  /\ storeData' = [storeData EXCEPT !.isLoading = FALSE]
  /\ UNCHANGED <<isUnlocked, send>>
  /\ StoreFrame

\* loadFromStorage's catch with the meta cleared as well: the fault C29 has
\* to detect.
LoadFromStorageRejectsClearsMeta(t) ==
  /\ t \in pending
  /\ t.kind = "load"
  /\ pending' = pending \ {t}
  /\ meta' = Null
  /\ storeData' = [storeData EXCEPT !.error = Some(LoadError),
                                     !.isLoading = FALSE]
  /\ UNCHANGED <<isUnlocked, send>>
  /\ StoreFrame

\* loadFromStorage after loadWalletMeta rejected: the catch sets error to
\* the message, then finally clears isLoading.
LoadFromStorageRejects(t) ==
  /\ t \in pending
  /\ t.kind = "load"
  /\ pending' = pending \ {t}
  /\ storeData' = [storeData EXCEPT !.error = Some(LoadError),
                                     !.isLoading = FALSE]
  /\ UNCHANGED <<storeVars, send>>
  /\ StoreFrame

NextLoad ==
  \/ LoadFromStorageStart
  \/ \E t \in pending : LoadFromStorageResolves(t)
  \/ \E t \in pending : LoadFromStorageRejects(t)
  \/ RefreshBalancesStart
  \/ \E t \in pending, results \in SettledResults :
       RefreshBalancesSettles(t, results)

SpecLoad == InitLoad /\ [][NextLoad]_vars

\* ------------------------------------------- the transactions of the store
\* addTransaction(tx) called on the store
AddTransaction(tx) ==
  /\ Len(storeData.transactions) < MaxTx
  /\ storeData' = StoreData(addTransaction(StoreState, tx))
  /\ UNCHANGED <<storeVars, pending, send>>
  /\ StoreFrame

\* updateTxStatus(hash, status) called on the store
UpdateTxStatus(hash, status) ==
  /\ storeData' = StoreData(updateTxStatus(StoreState, hash, status))
  /\ UNCHANGED <<storeVars, pending, send>>
  /\ StoreFrame

\* Transaction records sent from the wallet's address, with any hash and
\* status.
Transactions ==
  [hash : TxHashes, from : {deriveAddress(SecretAbandon)}, status : Statuses]

\* The transactions the app hands to addTransaction: SendScreen adds them
\* with status 'pending'; the other statuses come from updateTxStatus.
SentTransactions == {tx \in Transactions : tx.status = "pending"}

NextTx ==
  \/ \E tx \in SentTransactions : AddTransaction(tx)
  \/ \E hash \in TxHashes, status \in Statuses : UpdateTxStatus(hash, status)
  \/ \E chain \in Chains : SetActiveChain(chain)

SpecTx == InitStore /\ [][NextTx]_vars

\* ---------------------------------------------------------- the Send screen
\* What the handlers of the Send screen leave alone, the store included.
SendFrame ==
  /\ UNCHANGED <<storeVars, storeData>>
  /\ StoreFrame

\* React commits the Send screen's state: the next handlers read it.
SendRender ==
  /\ <<send.rStep, send.rPin, send.rLoading>> # <<send.step, send.pin, send.loading>>
  /\ send' = [send EXCEPT !.rStep = send.step, !.rPin = send.pin,
                          !.rLoading = send.loading]
  /\ UNCHANGED pending
  /\ SendFrame

\* "Review Transaction" with a form validate() accepts: setStep('pin'),
\* setPin('').
SendReview ==
  /\ route = "Main"
  /\ send.rStep = "form"
  /\ send' = [send EXCEPT !.step = "pin", !.pin = <<>>]
  /\ UNCHANGED pending
  /\ SendFrame

\* "Back" on the PIN confirmation, shown in the steps 'pin' and 'sending':
\* setStep('form'), setPin('').
SendBack ==
  /\ route = "Main"
  /\ send.rStep \in {"pin", "sending"}
  /\ send' = [send EXCEPT !.step = "form", !.pin = <<>>]
  /\ UNCHANGED pending
  /\ SendFrame

\* The pad of the PIN confirmation is rendered when loading is false.
PinPadShown == send.rStep \in {"pin", "sending"} /\ ~send.rLoading

\* handlePinKey('⌫')
HandlePinKeyBackspace ==
  /\ route = "Main"
  /\ PinPadShown
  /\ send.pin # <<>>
  /\ send' = [send EXCEPT !.pin = SubSeq(send.pin, 1, Len(send.pin) - 1)]
  /\ UNCHANGED pending
  /\ SendFrame

\* handlePinKey(digit); the sixth digit calls executeSend(next), which runs
\* up to its await of sendNative.
HandlePinKeyDigit(key) ==
  /\ route = "Main"
  /\ PinPadShown
  /\ Len(send.rPin) < PIN_LENGTH
  /\ LET next == Append(send.rPin, key)
     IN  /\ \E p \in Pins : IsPrefix(next, p)
         /\ IF Len(next) = PIN_LENGTH
            THEN /\ meta # Null
                 /\ Cardinality(pending) < MaxPending
                 /\ pending' = pending \cup
                      {[kind |-> "send", address |-> meta[1].address,
                        n |-> FreeSlot]}
                 /\ send' = executeSendBegins([send EXCEPT !.pin = next])
            ELSE /\ send' = [send EXCEPT !.pin = next]
                 /\ UNCHANGED pending
  /\ SendFrame

NextSend ==
  \/ SendRender
  \/ SendReview
  \/ SendBack
  \/ HandlePinKeyBackspace
  \/ \E key \in PadKeys : HandlePinKeyDigit(key)
  \/ \E t \in pending, hash \in TxHashes : ExecuteSendResolves(t, hash)
  \/ \E t \in pending : ExecuteSendRejects(t)

SpecSend == InitStore /\ [][NextSend]_vars

\* ------------------------------------------- start-up and the auth stack
\* Cap of the number of restarts of the process explored by the model.
MaxBoots == 2

\* String.prototype.trim, for the space character.
RECURSIVE TrimStart(_)
TrimStart(s) == IF s # <<>> /\ Head(s) = 32 THEN TrimStart(Tail(s)) ELSE s
RECURSIVE TrimEnd(_)
TrimEnd(s) ==
  IF s # <<>> /\ s[Len(s)] = 32 THEN TrimEnd(SubSeq(s, 1, Len(s) - 1)) ELSE s
Trim(s) == TrimEnd(TrimStart(s))

\* The texts typed into the import screen: nothing, a blank, "abandon" (it
\* stands for a phrase bip39.validateMnemonic accepts), the same with spaces
\* around it, "abandox" (a phrase it refuses), "0x1f2e3d" (it stands for a
\* key ethers.Wallet accepts) and "0xINVALIDHEX".
AbandonTypo == <<97, 98, 97, 110, 100, 111, 120>>
HexKey == <<48, 120, 49, 102, 50, 101, 51, 100>>
InvalidHex == <<48, 120, 73, 78, 86, 65, 76, 73, 68, 72, 69, 88>>
ValidMnemonics == {SecretAbandon}
ValidPrivateKeys == {HexKey}
ImportInputs ==
  {<<>>, <<32>>, SecretAbandon, <<32>> \o SecretAbandon \o <<32>>,
   AbandonTypo, HexKey, InvalidHex}

\* The phrases bip39.generateMnemonic(128) returns in the model.
GeneratedPhrases == Secrets

\* generateWallet, for the phrase the generator returned.
generateWallet(m) == [mnemonic |-> m, address |-> deriveAddress(m)]

\* importFromMnemonic: throws unless bip39.validateMnemonic accepts the
\* trimmed phrase, else returns deriveAddress of it.
importFromMnemonic(mnemonic) ==
  IF Trim(mnemonic) \notin ValidMnemonics
  THEN [ok |-> FALSE, error |-> "Invalid mnemonic phrase", address |-> Null]
  ELSE [ok |-> TRUE, error |-> "", address |-> Some(deriveAddress(Trim(mnemonic)))]

\* importFromPrivateKey: new ethers.Wallet(privateKey.trim()) throws on
\* anything that is not a key, else its address is returned.
importFromPrivateKey(privateKey) ==
  IF Trim(privateKey) \notin ValidPrivateKeys
  THEN [ok |-> FALSE, error |-> "invalid private key", address |-> Null]
  ELSE [ok |-> TRUE, error |-> "", address |-> Some([walletOf |-> Trim(privateKey)])]

\* ethers.HDNodeWallet.fromPhrase(phrase, undefined, DERIVATION_PATH): throws
\* on a text that is not a BIP-39 phrase, else gives the node of the phrase.
fromPhrase(phrase) ==
  IF phrase \notin ValidMnemonics
  THEN [ok |-> FALSE, error |-> "invalid mnemonic", address |-> Null]
  ELSE [ok |-> TRUE, error |-> "", address |-> Some(deriveAddress(phrase))]

\* getSigner(chainKey, pin) once Keychain.getGenericPassword has resolved
\* with result: the chain only selects the provider of the signer.
getSigner(chainKey, result, p) ==
  LET res == loadMnemonic(result, p)
  IN  IF ~res.ok
      THEN [ok |-> FALSE, error |-> res.error, chain |-> chainKey,
            address |-> Null]
      ELSE LET hdNode == fromPhrase(res.value)
           IN  [ok |-> hdNode.ok, error |-> hdNode.error, chain |-> chainKey,
                address |-> hdNode.address]

\* loadFromStorage leaving the meta null: the fault C15 has to detect.
loadFromStorageKeepsNull(item) == Null

\* loadFromStorage: the meta the store holds once loadWalletMeta resolved.
loadFromStorage(item) == loadWalletMeta(item)

\* What the actions of the auth stack leave alone: storage, the store,
\* the unlock screen, the root route.
FlowFrame ==
  UNCHANGED <<storageVars, storeVars, screenVars, renderVars, route, lastLoad,
              everUnlocked, mainVars, boot, prevSave>>

\* The process is killed and started again.  Storage survives; the store is
\* created at initialState and loadFromStorage reads the meta; the
\* navigators mount on initialRoute and on the auth stack's first screen;
\* every component state is new and every pending call is gone.
Boot ==
  /\ boot.boots < MaxBoots
  /\ LET s == [initialState EXCEPT !.meta = loadFromStorage(encStorage)]
     IN  /\ meta' = s.meta
         /\ isUnlocked' = s.isUnlocked
         /\ storeData' = StoreData(s)
         /\ route' = initialRoute(s.meta, s.isUnlocked)
         /\ boot' = BootRecord(boot.boots + 1, encStorage, keychain, s.meta,
                               s.isUnlocked)
  /\ auth' = AuthMounted
  /\ pin' = <<>>
  /\ loading' = FALSE
  /\ attempts' = 0
  /\ rPin' = <<>>
  /\ rLoading' = FALSE
  /\ rAttempts' = 0
  /\ inflight' = EmptyBag
  /\ pending' = {}
  /\ send' = SendMounted
  /\ lastLoad' = NoAttempt
  /\ everUnlocked' = FALSE
  /\ UNCHANGED <<storageVars, prevSave>>

\* OnboardingScreen, "Create New Wallet": navigate('CreateWallet').  The
\* screen mounts with no phrase and its effect calls generate().
OnboardingCreateWallet ==
  /\ route = "Auth"
  /\ auth.screen = "Onboarding"
  /\ auth' = [AuthMounted EXCEPT !.screen = "CreateWallet"]
  /\ FlowFrame

\* generate() with the addition of saveWalletMeta: the fault C19 has to
\* detect.
GenerateSavesMeta(m) ==
  /\ route = "Auth"
  /\ auth.screen = "CreateWallet"
  /\ auth.created = Null
  /\ auth.alert = ""
  /\ auth' = [auth EXCEPT !.created = Some(generateWallet(m))]
  /\ encStorage' = saveWalletMeta([address |-> deriveAddress(m),
                                   createdAt |-> 0, backupVerified |-> FALSE])
  /\ UNCHANGED <<keychain, kcSecret, kcPin, wiped, storeVars, screenVars,
                 renderVars, route, lastLoad, everUnlocked, mainVars, boot,
                 prevSave>>

\* CreateWalletScreen.generate, generateWallet resolves: the phrase and the
\* address go into the component's state.
Generate(m) ==
  /\ route = "Auth"
  /\ auth.screen = "CreateWallet"
  /\ auth.created = Null
  /\ auth.alert = ""
  /\ auth' = [auth EXCEPT !.created = Some(generateWallet(m))]
  /\ FlowFrame

\* CreateWalletScreen.generate, generateWallet rejects: Alert 'Error'.
GenerateRejects ==
  /\ route = "Auth"
  /\ auth.screen = "CreateWallet"
  /\ auth.created = Null
  /\ auth.alert = ""
  /\ auth' = [auth EXCEPT !.alert = "Error"]
  /\ FlowFrame

\* CreateWalletScreen.proceed, backup confirmed:
\* navigate('SetPin', { mnemonic, isNew: true }).
Proceed ==
  /\ route = "Auth"
  /\ auth.screen = "CreateWallet"
  /\ auth.created # Null
  /\ auth' = [auth EXCEPT !.screen = "SetPin", !.alert = "",
                          !.params = Some([kind |-> "mnemonic",
                                           secret |-> auth.created[1].mnemonic,
                                           isNew |-> TRUE])]
  /\ FlowFrame

\* OnboardingScreen, "Import Existing Wallet": navigate('ImportWallet').
OnboardingImportWallet ==
  /\ route = "Auth"
  /\ auth.screen = "Onboarding"
  /\ auth' = [AuthMounted EXCEPT !.screen = "ImportWallet"]
  /\ FlowFrame

\* handleImport with the navigation before the validation: the fault C14
\* has to detect.
HandleImportNavigatesFirst(input, usePrivateKey) ==
  /\ route = "Auth"
  /\ auth.screen = "ImportWallet"
  /\ LET trimmed == Trim(input)
         res == IF usePrivateKey THEN importFromPrivateKey(trimmed)
                ELSE importFromMnemonic(trimmed)
     IN  IF trimmed = <<>>
         THEN auth' = [auth EXCEPT !.alert = "Error"]
         ELSE auth' = [auth EXCEPT
                         !.screen = "SetPin",
                         !.alert = IF res.ok THEN "" ELSE "Invalid Input",
                         !.params = Some([kind |-> IF usePrivateKey
                                                   THEN "privateKey"
                                                   ELSE "mnemonic",
                                          secret |-> trimmed,
                                          isNew |-> FALSE])]
  /\ FlowFrame

\* ImportWalletScreen.handleImport: an empty input is refused with Alert
\* 'Error'; an input the import function accepts navigates to SetPin with
\* the trimmed text; one it throws on shows Alert 'Invalid Input'.
HandleImport(input, usePrivateKey) ==
  /\ route = "Auth"
  /\ auth.screen = "ImportWallet"
  /\ LET trimmed == Trim(input)
         res == IF usePrivateKey THEN importFromPrivateKey(trimmed)
                ELSE importFromMnemonic(trimmed)
     IN  IF trimmed = <<>>
         THEN auth' = [auth EXCEPT !.alert = "Error"]
         ELSE IF res.ok
         THEN auth' = [auth EXCEPT
                         !.screen = "SetPin", !.alert = "",
                         !.params = Some([kind |-> IF usePrivateKey
                                                   THEN "privateKey"
                                                   ELSE "mnemonic",
                                          secret |-> trimmed,
                                          isNew |-> FALSE])]
         ELSE auth' = [auth EXCEPT !.alert = "Invalid Input"]
  /\ FlowFrame

\* "Back" on CreateWallet or ImportWallet: goBack() unmounts the screen.
GoBack ==
  /\ route = "Auth"
  /\ auth.screen \in {"CreateWallet", "ImportWallet"}
  /\ auth' = AuthMounted
  /\ FlowFrame

\* The PIN setup from the SetPin screen, for the secret of its route params:
\* the blob is saved under the PIN and the meta, with the address of the
\* secret, is saved and put into the store.
SetPinComplete(p) ==
  /\ route = "Auth"
  /\ auth.screen = "SetPin"
  /\ auth.params # Null
  /\ LET m == auth.params[1].secret
         wm == [address |-> IF auth.params[1].kind = "mnemonic"
                            THEN importFromMnemonic(m).address[1]
                            ELSE importFromPrivateKey(m).address[1],
                createdAt |-> 0, backupVerified |-> FALSE]
     IN  /\ keychain' = saveMnemonic(m, p)
         /\ kcSecret' = m
         /\ kcPin' = p
         /\ encStorage' = saveWalletMeta(wm)
         /\ meta' = Some(wm)
  /\ wiped' = FALSE
  /\ auth' = [auth EXCEPT !.alert = ""]
  /\ UNCHANGED <<isUnlocked, screenVars, renderVars, route, lastLoad,
                 everUnlocked, mainVars, boot, prevSave>>

NextFlow ==
  \/ Boot
  \/ OnboardingCreateWallet
  \/ \E m \in GeneratedPhrases : Generate(m)
  \/ GenerateRejects
  \/ Proceed
  \/ OnboardingImportWallet
  \/ \E input \in ImportInputs, usePrivateKey \in BOOLEAN :
       HandleImport(input, usePrivateKey)
  \/ GoBack
  \/ \E p \in Pins : SetPinComplete(p)

SpecFlow == Init /\ [][NextFlow]_vars

\* ================================================================ claims
\* C1: decrypting a stored blob with a PIN other than the one it was saved
\* with fails: loadMnemonic does not return a value for a wrong PIN.
C1_WrongPinFails ==
  (lastLoad.read = "blob" /\ ~lastLoad.pinIsSaved) => ~lastLoad.ok

\* C2: an unlock attempt makes the session unlocked exactly when its PIN is
\* the PIN the stored wallet was set up with.
C2_UnlockedOnlyBySetupPin ==
  lastLoad.read # "none" => (lastLoad.unlocked <=> lastLoad.pinIsSaved)

\* C3: once LOCKOUT_THRESHOLD failed submissions in a row have been counted
\* (no attempt has succeeded, so every counted failure is consecutive), a
\* further PIN submission is rejected without loading the blob: no new
\* tryUnlock call reaches loadMnemonic.
C3_LockedOutSubmissionsNotLoaded ==
  [][(~everUnlocked /\ attempts >= LOCKOUT_THRESHOLD)
       => BagCardinality(inflight') <= BagCardinality(inflight)]_vars

\* C4: at no time are two loadMnemonic attempts of the unlock screen in
\* flight together.
C4_OneAttemptInFlight == BagCardinality(inflight) <= 1

\* C5: in persistent storage a WalletMeta record exists if and only if an
\* encrypted secret blob exists.
C5_MetaIffBlob == (loadWalletMeta(encStorage) # Null) <=> (keychain # Null)

\* C6: for any PIN, what the unlock screen does is the same when no wallet
\* is stored as when a wallet is stored and the PIN is not its PIN.
C6_NoWalletLooksLikeWrongPin ==
  \A p \in Pins :
    (keychain # Null /\ p # kcPin) =>
      tryUnlockOutcome(loadMnemonic(keychain, p), rAttempts)
        = tryUnlockOutcome(loadMnemonic(Null, p), rAttempts)

\* C7: each failed PIN submission increases the failure counter by exactly
\* one.
C7_FailureAddsOne ==
  [][(lastLoad'.read # "none" /\ ~lastLoad'.unlocked)
       => attempts' = attempts + 1]_vars

\* C8: a successful unlock leaves the failed-attempt counter at 0.
C8_SuccessResetsAttempts == lastLoad.unlocked => attempts = 0

\* C9: loadMnemonic with the PIN the entry was saved with returns exactly
\* the secret saveMnemonic was given.
C9_RoundTrip ==
  (lastLoad.read = "blob" /\ lastLoad.pinIsSaved)
    => (lastLoad.ok /\ lastLoad.valueIsSaved)

\* C9 happens: a secret longer than the PIN, so that the key repeats, was
\* saved and loaded back with the same PIN.
C9_Witness ==
  /\ lastLoad.read = "blob"
  /\ lastLoad.pinIsSaved
  /\ lastLoad.valueIsSaved
  /\ Len(kcSecret) > PIN_LENGTH

\* C10: after a wipe completed (and until a wallet is saved again)
\* loadWalletMeta gives null, the session is not unlocked, and an unlock
\* attempt that settles does not unlock and decrypts nothing: when the
\* keychain read resolves, loadMnemonic reports that no wallet is stored.
C10_AfterWipeNoWallet ==
  wiped =>
    /\ loadWalletMeta(encStorage) = Null
    /\ ~isUnlocked
    /\ (lastLoad.read # "none" =>
          (~lastLoad.unlocked /\ lastLoad.read # "blob"))
    /\ (lastLoad.read = "absent" =>
          (~lastLoad.ok /\ lastLoad.error = "No wallet stored on this device"))

\* C10 happens: an unlock attempt settled after a completed wipe and was
\* told that no wallet is stored.
C10_Witness ==
  /\ wiped
  /\ lastLoad.afterWipe
  /\ lastLoad.read = "absent"
  /\ attempts > 0

\* C11: the session becomes unlocked only by an attempt that found an
\* encrypted blob in the keychain: an attempt that read no entry (nothing
\* was ever saved, or a wallet was created and not saved) or whose read
\* failed never unlocks.
C11_UnlockedOnlyWithBlob ==
  /\ lastLoad.unlocked => lastLoad.read = "blob"
  /\ (lastLoad.read \in {"absent", "rejected"}) => ~lastLoad.unlocked
  /\ (isUnlocked => everUnlocked)

\* C11 happens: an attempt on a stored blob has just unlocked the session.
C11_Witness ==
  /\ lastLoad.read = "blob"
  /\ lastLoad.unlocked
  /\ isUnlocked
  /\ keychain # Null

\* C12: the step in which the Settings wipe succeeds leaves no blob and no
\* meta in storage and the store at its initial state: meta null, isUnlocked
\* false, no balances, no transactions.
C12_WipeResetsStore ==
  [][(~wiped /\ wiped') =>
       /\ keychain' = Null
       /\ loadWalletMeta(encStorage') = Null
       /\ meta' = Null
       /\ ~isUnlocked'
       /\ storeData'.nativeBalances = EmptyBalances
       /\ storeData'.transactions = <<>>
       /\ StoreState' = initialState]_vars

\* C12 happens: the wallet was wiped while a request started for it was
\* still awaiting the network, and the store is at its initial state.
C12_Witness ==
  /\ wiped
  /\ keychain = Null
  /\ StoreState = initialState
  /\ pending # {}

\* C13: at a start of the app, a device with no wallet is shown the
\* onboarding screen, and a device with a persisted wallet (locked, as every
\* start is) is shown the unlock screen, not onboarding.
C13_BootRouting ==
  /\ (~boot.hadMeta /\ ~boot.hadBlob) =>
       (boot.route = "Auth" /\ boot.screen = "Onboarding")
  /\ (boot.hadMeta /\ boot.hadBlob) =>
       (boot.route = "Auth" /\ boot.screen = "Unlock")

\* C14: an import whose input is refused (a bad phrase, "0xINVALIDHEX", a
\* phrase given as a key or a key given as a phrase) shows the error, writes
\* nothing to the keychain or the meta storage, leaves the store as it was
\* and stays on the import screen; SetPin is only ever entered with a secret
\* the import function of its kind accepts.
C14_InvalidImportChangesNothing ==
  [][/\ (auth'.alert = "Invalid Input") =>
          /\ keychain' = keychain
          /\ encStorage' = encStorage
          /\ StoreState' = StoreState
          /\ auth'.screen = "ImportWallet"
          /\ auth'.params = Null
     /\ (auth'.screen = "SetPin" /\ ~auth'.params[1].isNew) =>
          /\ auth'.params[1].secret \notin {AbandonTypo, InvalidHex, <<>>}
          /\ IF auth'.params[1].kind = "mnemonic"
             THEN importFromMnemonic(auth'.params[1].secret).ok
             ELSE importFromPrivateKey(auth'.params[1].secret).ok]_vars

\* C14's case: on a device that was restarted with a wallet in storage, an
\* import was refused.
C14_Witness ==
  /\ auth.screen = "ImportWallet"
  /\ auth.alert = "Invalid Input"
  /\ boot.boots > 0
  /\ keychain # Null
  /\ encStorage # Null

\* C15: when the process restarts on a device whose wallet was set up for a
\* generated phrase under a PIN p, the session starts locked with zero
\* failed attempts, and loadMnemonic with p returns a secret that unlocks
\* and whose derived address is the address recorded in the meta, which is
\* the address generateWallet returned for the phrase.
C15_RestartThenUnlock ==
  [][(boot'.boots = boot.boots + 1 /\ keychain # Null /\ encStorage # Null
        /\ kcSecret \in GeneratedPhrases) =>
       /\ ~isUnlocked'
       /\ attempts' = 0
       /\ rAttempts' = 0
       /\ LET res == loadMnemonic(keychain', kcPin')
          IN  /\ res.ok
              /\ tryUnlockOutcome(res, rAttempts').unlocked
              /\ meta' # Null
              /\ deriveAddress(res.value) = meta'[1].address
              /\ meta'[1].address = generateWallet(kcSecret').address]_vars

\* C15's case: the process was restarted with the blob and the meta of a
\* generated phrase in storage.
C15_Witness ==
  /\ boot.boots > 0
  /\ boot.hadBlob
  /\ boot.hadMeta
  /\ kcSecret \in GeneratedPhrases
  /\ meta # Null
  /\ ~isUnlocked
  /\ attempts = 0

\* C16: the keychain never holds the secret unencrypted: its value is the
\* output of encryptWithPin for the secret and the PIN, it differs from the
\* plaintext as a text, and every byte it encodes differs from the
\* plaintext's character at that place.
C16_NeverStoredPlain ==
  keychain # Null =>
    /\ keychain[1] = encryptWithPin(kcSecret, kcPin)
    /\ Base64Text(keychain[1]) # kcSecret
    /\ Len(Base64Decode(keychain[1])) = Len(kcSecret)
    /\ \A i \in 1..Len(kcSecret) : Base64Decode(keychain[1])[i] # kcSecret[i]

\* C16's case: a secret of the longest length is in the keychain.
C16_Witness ==
  keychain # Null /\ Len(kcSecret) = MaxSecretLen /\ kcPin = Pin000000

\* C17: when the keychain read of an unlock attempt fails, the failure is
\* not shown to the user as a wrong PIN.
C17_StorageFailureDistinct ==
  (lastLoad.read = "rejected") => (lastLoad.alert # "Wrong PIN")

C19_CreatePersistsNothing ==
  [][(auth.screen = "CreateWallet" /\ boot' = boot) =>
       /\ keychain' = keychain
       /\ encStorage' = encStorage
       /\ meta' = meta
       /\ (auth'.created # Null =>
             /\ auth'.created[1].mnemonic \in GeneratedPhrases
             /\ auth'.created[1].address =
                  deriveAddress(auth'.created[1].mnemonic))]_vars

\* C19's case: on a device without a wallet a phrase was generated and the
\* flow has moved on to SetPin, and nothing is persisted yet.
C19_Witness ==
  /\ auth.screen = "SetPin"
  /\ auth.params # Null
  /\ auth.params[1].isNew
  /\ auth.created # Null
  /\ keychain = Null
  /\ encStorage = Null
  /\ meta = Null

\* C20: two saves of the same secret under the same PIN never produce the
\* same blob.
C20_FreshNonce ==
  (prevSave # Null /\ keychain # Null /\ prevSave[1].secret = kcSecret
     /\ prevSave[1].pin = kcPin) =>
    prevSave[1].blob # keychain[1]

\* C21: for a wallet saved under a PIN, of either kind of secret, getSigner
\* with that PIN returns for every chain a signer whose address is the one
\* the import function of the secret's kind returned.
C21_SignerForBothKinds ==
  keychain # Null =>
    \A chain \in Chains :
      LET signer == getSigner(chain, keychain, kcPin)
      IN  /\ signer.ok
          /\ signer.address =
               IF kcSecret \in ValidPrivateKeys
               THEN importFromPrivateKey(kcSecret).address
               ELSE importFromMnemonic(kcSecret).address

\* C22: on the Send screen at most one sendNative call is in flight: no
\* interleaving of key presses and re-renders starts two sends for one
\* confirmation.
C22_OneSendPerConfirmation ==
  Cardinality({t \in pending : t.kind = "send"}) <= 1

\* C27: when a send in flight settles without a new transaction (sendNative
\* rejected) the store is as before and the screen is on the form step with
\* an empty pin and loading false; when it settles with one (sendNative
\* resolved) exactly one transaction, of status 'pending' and with a
\* returned hash, is put in front of the list and the rest of the store is
\* as before, whatever step the screen shows.
C27_SendSettles ==
  [][(\E t \in pending : t.kind = "send" /\ t \notin pending') =>
       IF storeData'.transactions = storeData.transactions
       THEN /\ StoreState' = StoreState
            /\ send'.step = "form"
            /\ send'.pin = <<>>
            /\ ~send'.loading
       ELSE /\ Len(storeData'.transactions) = Len(storeData.transactions) + 1
            /\ Tail(storeData'.transactions) = storeData.transactions
            /\ Head(storeData'.transactions).status = "pending"
            /\ Head(storeData'.transactions).hash \in TxHashes
            /\ StoreState' =
                 [StoreState EXCEPT !.transactions = storeData'.transactions]
            /\ ~send'.loading
            /\ send'.step = send.step]_vars

\* C27's case: a send resolved after the screen had been taken back to the
\* form, and a later one was rejected.
C27_Witness ==
  /\ Len(storeData.transactions) = 1
  /\ send.step = "form"
  /\ send.pin = <<>>
  /\ ~send.loading
  /\ pending = {}
  /\ send.rStep = "sending"

\* C23: once the Settings wipe has reset the store, a refreshBalances that
\* was in flight writes no balance: nativeBalances stays empty.  (After the
\* reset the store has no meta, so no later refresh gets past its first
\* line.)
C23_NoBalancesAfterReset ==
  (wiped /\ meta = Null) => storeData.nativeBalances = EmptyBalances

\* C24: isLoading is true exactly while a loadFromStorage or a
\* refreshBalances call is in flight, also when the two overlap.
C24_LoadingWhileInFlight ==
  storeData.isLoading <=>
    (\E t \in pending : t.kind \in {"load", "refresh"})

\* C28: the step in which a refreshBalances settles changes the balance of
\* a chain only to a fetched balance and only for a chain that is not a
\* testnet, keeps every other balance as it was, ends with isLoading false
\* and changes no other field of the store; and on a store with no meta
\* refreshBalances changes nothing.
C28_RefreshWritesFulfilledOnly ==
  /\ [](meta = Null => refreshBalancesBegins(StoreState) = StoreState)
  /\ [][(\E t \in pending : t.kind = "refresh" /\ t \notin pending') =>
          /\ DOMAIN storeData.nativeBalances
                \subseteq DOMAIN storeData'.nativeBalances
          /\ \A k \in DOMAIN storeData'.nativeBalances :
                \/ /\ k \in DOMAIN storeData.nativeBalances
                   /\ storeData'.nativeBalances[k] =
                        storeData.nativeBalances[k]
                \/ /\ k \in Chains
                   /\ ~CHAINS[k].isTestnet
                   /\ storeData'.nativeBalances[k] \in Balances
          /\ ~storeData'.isLoading
          /\ StoreState' =
               [StoreState EXCEPT
                  !.nativeBalances = storeData'.nativeBalances,
                  !.isLoading = FALSE]]_vars

\* C28's case: refreshes have settled with different balances for two
\* chains and no balance for the third, whose requests were rejected.
C28_Witness ==
  /\ pending = {}
  /\ ~storeData.isLoading
  /\ DOMAIN storeData.nativeBalances = {"ethereum", "bsc"}
  /\ storeData.nativeBalances["ethereum"] = "1.5"
  /\ storeData.nativeBalances["bsc"] = "0.25"

\* C29: the step in which a loadFromStorage settles ends with isLoading
\* false and either sets meta to what loadWalletMeta read (null when nothing
\* is stored) or sets error to the message and keeps meta; no other field of
\* the store changes.
C29_LoadSettles ==
  [][(\E t \in pending : t.kind = "load" /\ t \notin pending') =>
       /\ ~storeData'.isLoading
       /\ \/ StoreState' =
               [StoreState EXCEPT !.meta = loadWalletMeta(encStorage),
                                  !.isLoading = FALSE]
          \/ StoreState' =
               [StoreState EXCEPT !.error = Some(LoadError),
                                  !.isLoading = FALSE]]_vars

\* C29's case: one load set the stored meta, a later one was rejected and
\* the meta is still there.
C29_Witness ==
  /\ pending = {}
  /\ meta # Null
  /\ storeData.error = Some(LoadError)
  /\ ~storeData.isLoading

\* C25: in every state of the store AppNavigator renders no navigator while
\* isLoading is true, and otherwise the root stack with initial route Main
\* exactly when a meta is loaded and isUnlocked is true, Auth in every other
\* case.
C25_InitialRoute ==
  LET r == AppNavigatorRenders(StoreState)
  IN  /\ storeData.isLoading => ~r.navigator
      /\ ~storeData.isLoading =>
           /\ r.navigator
           /\ r.initialRouteName =
                IF meta # Null /\ isUnlocked THEN "Main" ELSE "Auth"

\* C25's case: a wallet is loaded and locked, nothing is loading, and the
\* navigator is rendered on Auth.
C25_Witness ==
  /\ meta # Null
  /\ ~isUnlocked
  /\ ~storeData.isLoading
  /\ AppNavigatorRenders(StoreState).navigator
  /\ AppNavigatorRenders(StoreState).initialRouteName = "Auth"

\* C26: on the unlock screen the PIN buffer always holds at most PIN_LENGTH
\* digits and every tryUnlock call was given exactly PIN_LENGTH digits; a
\* key press handled while an attempt is loading changes neither the buffer
\* nor the calls in flight; and the step in which an attempt fails leaves
\* the buffer empty and loading false.
C26_UnlockBuffer ==
  /\ [](/\ Len(pin) <= PIN_LENGTH
        /\ \A a \in BagToSet(inflight) : Len(a.pin) = PIN_LENGTH)
  /\ [][/\ (loading /\ lastLoad'.read = "none") =>
             (pin' = pin /\ inflight' = inflight)
        /\ (lastLoad'.read # "none" /\ ~lastLoad'.unlocked) =>
             (pin' = <<>> /\ ~loading')]_vars

\* C30: in every state of the store, updateTxStatus(hash, status) gives a
\* store that differs at most in the status of the first transaction with
\* that hash, which becomes status: the list keeps its length and order,
\* every other transaction and every other field of that one is as before,
\* and so is every other field of the store; it is the same store when no
\* transaction has that hash.  addTransaction(tx) gives the same store with
\* tx at index 0 and the former transactions after it in their order.
C30_TxUpdates ==
  LET old == StoreState.transactions
  IN  /\ \A hash \in TxHashes, status \in Statuses :
           LET res == updateTxStatus(StoreState, hash, status)
               new == res.transactions
           IN  /\ res = [StoreState EXCEPT !.transactions = new]
               /\ Len(new) = Len(old)
               /\ \A i \in 1..Len(old) :
                     IF /\ old[i].hash = hash
                        /\ \A j \in 1..(i - 1) : old[j].hash # hash
                     THEN new[i] = [old[i] EXCEPT !.status = status]
                     ELSE new[i] = old[i]
               /\ (\A i \in 1..Len(old) : old[i].hash # hash) =>
                     res = StoreState
      /\ \A tx \in Transactions :
           LET res == addTransaction(StoreState, tx)
           IN  /\ res = [StoreState EXCEPT !.transactions = res.transactions]
               /\ Len(res.transactions) = Len(old) + 1
               /\ Head(res.transactions) = tx
               /\ Tail(res.transactions) = old

\* C30's case: two transactions of one hash are in the list, a status
\* update of that hash was applied, and only the first of them has it.
C30_Witness ==
  /\ Len(storeData.transactions) = 2
  /\ storeData.transactions[1].hash = storeData.transactions[2].hash
  /\ storeData.transactions[1].status = "confirmed"
  /\ storeData.transactions[2].status = "pending"
  /\ storeData.activeChain # DEFAULT_CHAIN_KEY

====
